---- MODULE Spec2Model ----
(***************************************************************************)
(* Shape-level model of HunYuanDiT (src/HunYuanDiT/models/models.py).      *)
(* A tensor is modelled by its shape, a sequence of naturals.  The model   *)
(* follows one HunYuanDiT object: its construction, calls of forward       *)
(* (which runs forward_raw and unpatchify) and direct calls of unpatchify. *)
(* Every call ends with an outcome: "ok" or the name of the exception.     *)
(* Layers imported from other modules (attention, norms, embedders,        *)
(* pooler) are modelled by the shapes they map to.                         *)
(***************************************************************************)
EXTENDS Integers, Sequences, FiniteSets, TLC

\* ---------------------------------------------------------------- bounds
MaxDepth == 5
MaxChannels == 2
MaxPatch == 2
MaxHidden == 1
MaxBatch == 1
MaxGrid == 1
MaxCalls == 1

\* ------------------------------------------------------ program constants
PoolerOutputDim == 1024
MetaEmbedDim == 256
MetaFields == 6
SrcSizeCondLen == 2
SizeCondTail == 4
DefaultInputSize == 32
LatentScale == 16

NormTypes == {"layer", "rms", "group"}

\* Exceptions raised by a raise / assert statement of models.py itself,
\* by the Python runtime, and by the numeric framework.
OwnErrors == {"ValueError", "AssertionError"}
RuntimeErrors == {"IndexError", "AttributeError"}
FrameworkErrors == {"RuntimeError", "TypeError"}

\* ------------------------------------------------------------ tensor ops
RECURSIVE Numel(_)
Numel(shape) == IF shape = <<>> THEN 1 ELSE Head(shape) * Numel(Tail(shape))

\* x.reshape(shape): legal iff the element counts agree
CanReshape(shape, target) == Numel(shape) = Numel(target)

\* x.view(-1, k): the first dimension is inferred
ViewInfer(shape, k) == <<Numel(shape) \div k, k>>
CanViewInfer(shape, k) == k > 0 /\ Numel(shape) % k = 0

\* torch.einsum with a pure permutation: output axis i is input axis perm[i]
Einsum(shape, perm) == [i \in 1..Len(perm) |-> shape[perm[i]]]

\* torch.cat(..., dim=1) of two 2-D tensors
CanCat1(a, b) == a[1] = b[1]
Cat1(a, b) == <<a[1], a[2] + b[2]>>

\* timestep_embedding(t, dim) for a 1-D t
TimestepEmbedding(shape, dim) == <<shape[1], dim>>

\* 'nhwpqc->nchpwq' as positions in 'nhwpqc'
UnpatchifyPerm == <<1, 6, 2, 4, 3, 5>>

\* a regrouping that puts the channel axis last
UnpatchifyOut_ChannelsLast(n, c, h, w, p) == <<n, h * p, w * p, c>>

\* 'nchpwq' regrouped as (n, c, h*p, w*p)
UnpatchifyOut(n, c, h, w, p) == <<n, c, h * p, w * p>>

\* HunYuanDiT.unpatchify(x, h, w) on a model with patch size p and
\* unpatchify_channels c: the outcome and the shape of imgs
Unpatchify(xs, h, w, p, c) ==
    LET six == <<xs[1], h, w, p, p, c>> IN
    IF h * w # xs[2] THEN [outcome |-> "AssertionError", shape |-> <<>>]
    ELSE IF ~CanReshape(xs, six) THEN [outcome |-> "RuntimeError", shape |-> <<>>]
    ELSE LET y == Einsum(six, UnpatchifyPerm)
             imgs == UnpatchifyOut(xs[1], c, h, w, p) IN
         IF CanReshape(y, imgs)
           THEN [outcome |-> "ok", shape |-> imgs]
           ELSE [outcome |-> "RuntimeError", shape |-> <<>>]

\* out[:, :k]
SliceChannels(shape, k) ==
    [shape EXCEPT ![2] = IF k < shape[2] THEN k ELSE shape[2]]

\* a return statement that forgets the learn_sigma slice
ForwardResult_NoSlice(out, learn_sigma, in_channels) == out

\* the return statement of forward
ForwardResult(out, learn_sigma, in_channels) ==
    IF learn_sigma THEN SliceChannels(out, in_channels) ELSE out

\* self.x_embedder(x): PatchEmbed is imported from .embedders; it is a
\* convolution of kernel and stride p followed by a flatten, so that
\* (N, C, H, W) becomes (N, T, D) with T = (H // p) * (W // p), the th * tw of
\* forward_raw
XEmbedder(xs, p, hidden_size) == <<xs[1], (xs[3] \div p) * (xs[4] \div p), hidden_size>>

\* FinalLayer.forward: the last dimension becomes patch_size^2 * out_channels
FinalLayerForward(xs, p, out_channels) == [xs EXCEPT ![3] = p * p * out_channels]

VARIABLES pc, self, args, x, extra_vec, extra_parts, skips, layer, hw, outcome, result, call, calls

vars == <<pc, self, args, x, extra_vec, extra_parts, skips, layer, hw, outcome, result, call, calls>>

NoModel == [exists |-> FALSE]
NoArgs == [op |-> "none"]
None == <<>>

Init ==
    /\ pc = "new"
    /\ self = NoModel
    /\ args = NoArgs
    /\ x = None
    /\ extra_vec = None
    /\ extra_parts = <<>>
    /\ skips = <<>>
    /\ layer = 0
    /\ hw = <<0, 0>>
    /\ outcome = "none"
    /\ result = None
    /\ call = "none"
    /\ calls = 0

\* ---------------------------------------------------------- construction
\* a dispatch that lost its "rms" branch
BlockInitOutcome_LayerOnly(norm_type) ==
    IF norm_type = "layer" THEN "ok" ELSE "ValueError"

\* HunYuanDiTBlock.__init__: the norm_type dispatch
BlockInitOutcome(norm_type) ==
    IF norm_type = "layer" \/ norm_type = "rms" THEN "ok" ELSE "ValueError"

\* HunYuanDiTBlock.__init__: the skip branch
BlockInit(skip) == [skip_linear |-> skip]

\* skip=layer > depth // 2, for layer in range(depth)
BlockSkipFlag(l, depth) == l > depth \div 2

\* self.blocks
Blocks(depth) == [i \in 1..depth |-> BlockInit(BlockSkipFlag(i - 1, depth))]

\* self.out_channels
OutChannels(learn_sigma, in_channels) ==
    IF learn_sigma THEN in_channels * 2 ELSE in_channels

\* a constructor that forgets the pooled text vector
ExtraInDim_NoPooled(cond_res, cond_style, hidden_size) ==
    (IF cond_res THEN MetaEmbedDim * MetaFields ELSE 0)
    + (IF cond_style THEN hidden_size ELSE 0)

\* self.extra_in_dim as accumulated by the constructor
ExtraInDim(cond_res, cond_style, hidden_size) ==
    (IF cond_res THEN MetaEmbedDim * MetaFields ELSE 0)
    + (IF cond_style THEN hidden_size ELSE 0)
    + PoolerOutputDim

\* HunYuanDiT.__init__
Construct ==
    /\ pc = "new"
    /\ \E learn_sigma \in BOOLEAN, in_channels \in 1..MaxChannels,
          patch_size \in 1..MaxPatch, hidden_size \in 1..MaxHidden,
          depth \in 0..MaxDepth, norm \in NormTypes,
          cond_res \in BOOLEAN, cond_style \in BOOLEAN :
         LET built == depth = 0 \/ BlockInitOutcome(norm) = "ok" IN
         /\ call' = "init"
         /\ args' = [op |-> "init", depth |-> depth, norm |-> norm]
         /\ IF built
              THEN /\ self' = [exists |-> TRUE,
                               depth |-> depth,
                               learn_sigma |-> learn_sigma,
                               in_channels |-> in_channels,
                               out_channels |-> OutChannels(learn_sigma, in_channels),
                               patch_size |-> patch_size,
                               hidden_size |-> hidden_size,
                               cond_res |-> cond_res,
                               cond_style |-> cond_style,
                               extra_in_dim |-> ExtraInDim(cond_res, cond_style, hidden_size),
                               last_size |-> <<DefaultInputSize, DefaultInputSize>>,
                               blocks |-> Blocks(depth),
                               unpatchify_channels |-> OutChannels(learn_sigma, in_channels)]
                   /\ pc' = "idle"
                   /\ outcome' = "ok"
              ELSE /\ self' = NoModel
                   /\ pc' = "raised"
                   /\ outcome' = BlockInitOutcome(norm)
    /\ UNCHANGED <<x, extra_vec, extra_parts, skips, layer, hw, result, calls>>

\* ------------------------------------------------------------- forward
\* a call ends: with an exception, or with a value
Raise(e) ==
    /\ pc' = "idle"
    /\ outcome' = e
    /\ result' = None

\* forward, up to the call of forward_raw
Forward ==
    /\ pc = "idle"
    /\ calls < MaxCalls
    /\ calls' = calls + 1
    /\ \E n \in 1..MaxBatch, gh \in 1..MaxGrid, gw \in 1..MaxGrid, masks \in BOOLEAN :
         LET xs == <<n, self.in_channels, gh * self.patch_size, gw * self.patch_size>>
             image_size == <<(xs[3] \div 2) * LatentScale, (xs[4] \div 2) * LatentScale>>
             image_meta_size == <<n, SrcSizeCondLen + SizeCondTail>>
         IN
         /\ call' = "forward"
         /\ args' = [op |-> "forward", x |-> xs, masks |-> masks,
                     image_meta_size |-> image_meta_size, style |-> <<n>>]
         /\ self' = IF self.last_size # image_size
                      THEN [self EXCEPT !.last_size = image_size]
                      ELSE self
         /\ x' = xs
         /\ extra_vec' = None
         /\ extra_parts' = <<>>
         /\ skips' = <<>>
         /\ layer' = 0
         /\ hw' = <<0, 0>>
         /\ IF masks
              THEN /\ pc' = "pool"
                   /\ outcome' = "none"
                   /\ result' = None
              ELSE Raise("AttributeError")

\* forward_raw: text states, th/tw, time and patch embedding, pooled text vector
Pool ==
    /\ pc = "pool"
    /\ hw' = <<x[3] \div self.patch_size, x[4] \div self.patch_size>>
    /\ x' = XEmbedder(x, self.patch_size, self.hidden_size)
    /\ extra_vec' = <<args.x[1], PoolerOutputDim>>
    /\ extra_parts' = <<"text">>
    /\ pc' = "cond_res"
    /\ UNCHANGED <<self, args, skips, layer, outcome, result, call, calls>>

\* forward_raw: if self.cond_res
CondRes ==
    /\ pc = "cond_res"
    /\ IF self.cond_res
         THEN LET flat == <<Numel(args.image_meta_size)>>
                  emb == TimestepEmbedding(flat, MetaEmbedDim)
                  width == MetaFields * MetaEmbedDim
              IN IF CanViewInfer(emb, width) /\ CanCat1(extra_vec, ViewInfer(emb, width))
                   THEN /\ extra_vec' = Cat1(extra_vec, ViewInfer(emb, width))
                        /\ extra_parts' = Append(extra_parts, "size")
                        /\ pc' = "cond_style"
                        /\ UNCHANGED <<outcome, result>>
                   ELSE /\ Raise("RuntimeError")
                        /\ UNCHANGED <<extra_vec, extra_parts>>
         ELSE /\ pc' = "cond_style"
              /\ UNCHANGED <<extra_vec, extra_parts, outcome, result>>
    /\ UNCHANGED <<self, args, x, skips, layer, hw, call, calls>>

\* forward_raw: if self.cond_style
CondStyle ==
    /\ pc = "cond_style"
    /\ IF self.cond_style
         THEN LET style_embedding == <<args.style[1], self.hidden_size>> IN
              IF CanCat1(extra_vec, style_embedding)
                THEN /\ extra_vec' = Cat1(extra_vec, style_embedding)
                     /\ extra_parts' = Append(extra_parts, "style")
                     /\ pc' = "extra_embedder"
                     /\ UNCHANGED <<outcome, result>>
                ELSE /\ Raise("RuntimeError")
                     /\ UNCHANGED <<extra_vec, extra_parts>>
         ELSE /\ pc' = "extra_embedder"
              /\ UNCHANGED <<extra_vec, extra_parts, outcome, result>>
    /\ UNCHANGED <<self, args, x, skips, layer, hw, call, calls>>

\* forward_raw: c = t + self.extra_embedder(extra_vec); the first Linear
\* accepts only inputs of width extra_in_dim
ExtraEmbedder ==
    /\ pc = "extra_embedder"
    /\ IF extra_vec[2] = self.extra_in_dim
         THEN /\ pc' = "blocks"
              /\ UNCHANGED <<outcome, result>>
         ELSE Raise("RuntimeError")
    /\ UNCHANGED <<self, args, x, extra_vec, extra_parts, skips, layer, hw, call, calls>>

\* ---------------------------------------------------------- block loop
\* HunYuanDiTBlock.forward on x of shape (N, L, D): the long skip connection,
\* then attention, cross attention and the FFN, which keep the shape
BlockForward(block, xs, skip) ==
    IF block.skip_linear
      THEN IF skip = None
             THEN [outcome |-> "TypeError", shape |-> None]
           ELSE IF skip.shape[1] = xs[1] /\ skip.shape[2] = xs[2]
             THEN [outcome |-> "ok", shape |-> xs]
           ELSE [outcome |-> "RuntimeError", shape |-> None]
      ELSE [outcome |-> "ok", shape |-> xs]

\* if layer > self.depth // 2
PopsSkip(l, depth) == l > depth \div 2

\* if layer < (self.depth // 2 - 1)
PushesSkip(l, depth) == l < depth \div 2 - 1

\* one iteration of "for layer, block in enumerate(self.blocks)"
BlockStep ==
    /\ pc = "blocks"
    /\ layer < Len(self.blocks)
    /\ LET block == self.blocks[layer + 1]
           pops == PopsSkip(layer, self.depth)
       IN
       IF pops /\ skips = <<>>
         THEN /\ Raise("IndexError")
              /\ UNCHANGED <<x, skips, layer>>
         ELSE LET skip == IF pops THEN skips[Len(skips)] ELSE None
                  rest == IF pops THEN SubSeq(skips, 1, Len(skips) - 1) ELSE skips
                  out == BlockForward(block, x, skip)
              IN
              IF out.outcome = "ok"
                THEN /\ x' = out.shape
                     /\ skips' = IF PushesSkip(layer, self.depth)
                                   THEN Append(rest, [shape |-> out.shape, from |-> layer])
                                   ELSE rest
                     /\ layer' = layer + 1
                     /\ UNCHANGED <<pc, outcome, result>>
                ELSE /\ Raise(out.outcome)
                     /\ skips' = rest
                     /\ UNCHANGED <<x, layer>>
    /\ UNCHANGED <<self, args, extra_vec, extra_parts, hw, call, calls>>

\* forward_raw: x = self.final_layer(x, c)
FinalLayerStep ==
    /\ pc = "blocks"
    /\ layer = Len(self.blocks)
    /\ x' = FinalLayerForward(x, self.patch_size, self.out_channels)
    /\ pc' = "unpatchify"
    /\ UNCHANGED <<self, args, extra_vec, extra_parts, skips, layer, hw, outcome, result, call, calls>>

\* forward_raw: x = self.unpatchify(x, th, tw); an exception leaves x as the
\* argument unpatchify was given
UnpatchifyStep ==
    /\ pc = "unpatchify"
    /\ LET r == Unpatchify(x, hw[1], hw[2], self.patch_size, self.unpatchify_channels) IN
       IF r.outcome = "ok"
         THEN /\ x' = r.shape
              /\ pc' = "return"
              /\ UNCHANGED <<outcome, result>>
         ELSE /\ Raise(r.outcome)
              /\ UNCHANGED x
    /\ UNCHANGED <<self, args, extra_vec, extra_parts, skips, layer, hw, call, calls>>

\* forward: out = out.to(torch.float) and the return statement
ForwardReturn ==
    /\ pc = "return"
    /\ result' = ForwardResult(x, self.learn_sigma, self.in_channels)
    /\ outcome' = "ok"
    /\ pc' = "idle"
    /\ UNCHANGED <<self, args, x, extra_vec, extra_parts, skips, layer, hw, call, calls>>

\* ------------------------------------------------- unpatchify, called alone
\* feature widths and token counts a caller may pass: the ones the reshape
\* and the assert accept, and one more
FeatureDims(p, c) == {p * p * c, p * p * c + 1}
TokenCounts(h, w) == {h * w, h * w + 1}

UnpatchifyCall ==
    /\ pc = "idle"
    /\ calls < MaxCalls
    /\ calls' = calls + 1
    /\ \E n \in 1..MaxBatch, h \in 1..MaxGrid, w \in 1..MaxGrid :
       \E t \in TokenCounts(h, w), d \in FeatureDims(self.patch_size, self.unpatchify_channels) :
         LET xs == <<n, t, d>>
             r == Unpatchify(xs, h, w, self.patch_size, self.unpatchify_channels)
         IN
         /\ call' = "unpatchify"
         /\ args' = [op |-> "unpatchify", x |-> xs, h |-> h, w |-> w]
         /\ x' = xs
         /\ hw' = <<h, w>>
         /\ outcome' = r.outcome
         /\ result' = r.shape
         /\ pc' = "idle"
    /\ UNCHANGED <<self, extra_vec, extra_parts, skips, layer>>

Next ==
    \/ Construct
    \/ Forward
    \/ Pool
    \/ CondRes
    \/ CondStyle
    \/ ExtraEmbedder
    \/ BlockStep
    \/ FinalLayerStep
    \/ UnpatchifyStep
    \/ ForwardReturn
    \/ UnpatchifyCall

Spec == Init /\ [][Next]_vars

\* ================================================================ claims
Finished == pc \in {"idle", "raised"}

\* C1 (as stated): every failure of construction, forward, forward_raw or
\* unpatchify is a mismatch surfaced by the numeric framework; no statement
\* of models.py produces an error outcome of its own.
C1_OnlyFrameworkErrors == outcome \in ({"none", "ok"} \cup FrameworkErrors)

\* C1 (amended): the raise and assert statements of models.py produce exactly
\* two error outcomes: ValueError, exactly when a block is constructed with a
\* norm_type other than "layer" and "rms" (HunYuanDiT with depth >= 1), and
\* AssertionError, exactly when unpatchify is given h * w # x.shape[1].
\* Every other failure comes from the Python runtime or the framework.
C1_OwnErrorsExact ==
    /\ outcome \in ({"none", "ok"} \cup OwnErrors \cup RuntimeErrors \cup FrameworkErrors)
    /\ (outcome = "ValueError")
         <=> (call = "init" /\ args.depth >= 1 /\ args.norm \notin {"layer", "rms"})
    /\ (outcome = "AssertionError")
         <=> (call = "unpatchify" /\ Finished /\ args.h * args.w # args.x[2])
    /\ (pc = "unpatchify") => hw[1] * hw[2] = x[2]

C1_Witness ==
    /\ call = "unpatchify"
    /\ outcome = "AssertionError"
    /\ args.x[3] = self.patch_size * self.patch_size * self.unpatchify_channels

\* the precondition of unpatchify: x is (N, T, p*p*C) with T = h*w
UnpatchifyPre ==
    /\ call = "unpatchify"
    /\ args.x[2] = args.h * args.w
    /\ args.x[3] = self.patch_size * self.patch_size * self.unpatchify_channels

C3_ForwardChannels ==
    (call = "forward" /\ outcome = "ok") =>
        /\ Len(result) = 4
        /\ result[2] = self.in_channels
        /\ self.learn_sigma =>
             /\ self.out_channels = 2 * self.in_channels
             /\ x[2] = 2 * self.in_channels
             /\ result = [x EXCEPT ![2] = self.in_channels]
        /\ ~self.learn_sigma =>
             /\ self.out_channels = self.in_channels
             /\ result = x

C3_Witness ==
    /\ call = "forward"
    /\ outcome = "ok"
    /\ self.learn_sigma
    /\ x[2] = 2 * self.in_channels
    /\ result[2] = self.in_channels

\* C4 (as stated): for every depth >= 1 the block loop never pops the skips
\* list while it is empty: when a layer with layer > depth // 2 is about to
\* run skips.pop(), an output pushed by a layer < depth // 2 - 1 is on it.
C4_NeverPopsEmpty ==
    (pc = "blocks" /\ self.depth >= 1 /\ layer < Len(self.blocks)
        /\ PopsSkip(layer, self.depth)) =>
        /\ skips # <<>>
        /\ skips[Len(skips)].from < self.depth \div 2 - 1

\* C5: for every combination of cond_res and cond_style, extra_vec is the
\* pooled text vector (1024), then the 6 * 256 image-size embedding if
\* cond_res, then the hidden_size style embedding if cond_style, and its
\* width equals extra_in_dim, the input width of extra_embedder.
C5_ExtraVecWidth ==
    (pc = "extra_embedder") =>
        /\ extra_parts = <<"text">>
                         \o (IF self.cond_res THEN <<"size">> ELSE <<>>)
                         \o (IF self.cond_style THEN <<"style">> ELSE <<>>)
        /\ extra_vec = <<args.x[1],
                         1024 + (IF self.cond_res THEN 6 * 256 ELSE 0)
                              + (IF self.cond_style THEN self.hidden_size ELSE 0)>>
        /\ extra_vec[2] = self.extra_in_dim

C5_Witness ==
    /\ pc = "extra_embedder"
    /\ self.cond_res
    /\ self.cond_style
    /\ extra_vec[2] = 1024 + 1536 + self.hidden_size
====
